---- MODULE Spec2Model ----
(***************************************************************************)
(* Point-in-polygon classification of PyMca's ctools                       *)
(* (InsidePolygonWithBounds.c): the crossing-number predicate generated by *)
(* the macro _INSIDE_POLYGON and the three batch entry points              *)
(* PointsInsidePolygon, PointsInsidePolygonF and PointsInsidePolygonInt.   *)
(*                                                                         *)
(* Buffers are flat sequences of scalars, as in the C code: the C element  *)
(* buf[j] is the element j+1 of the sequence.  Every coordinate of the     *)
(* model is an integer of small magnitude, which double, float and int all *)
(* represent exactly, so the promotions to double of the comparisons are   *)
(* value preserving.  The quotient of line 26 is compared as an exact      *)
(* rational: for integer operands of this magnitude the double quotient is *)
(* an integer exactly when the rational one is, and rounding never moves   *)
(* it across an integer, so the comparison with the integer p.x has the    *)
(* same outcome.                                                           *)
(***************************************************************************)
EXTENDS Integers, Sequences, FiniteSets, TLC

\* Bounds of the model.
MaxX == 1          \* x coordinates of the general polygons range over 0..MaxX
MaxY == 2          \* their y coordinates range over 0..MaxY
MaxN == 3          \* polygons have 3..MaxN vertices
MaxPoints == 2     \* batches hold 0..MaxPoints query points
Margin == 5        \* the grids around the fixed polygons extend this far

\* InsidePolygonWithBounds.h
INSIDE == 1
OUTSIDE == 0
MIN(x, y) == IF x < y THEN x ELSE y
MAX(x, y) == IF x > y THEN x ELSE y

VARIABLES
    vertices,      \* double *vertices: 2*N_vertices scalars, x and y interleaved
    N_vertices,
    points_xy,     \* T *points_xy: 2*N_points_xy scalars
    N_points_xy,
    border_value,  \* int border_value
    output,        \* unsigned char *output; Unwritten marks the caller's bytes
    written,       \* history: how many times each output slot was stored to
    pc,            \* position of the batch function
    i,             \* its loop counter
    point,         \* its point pointer, as an index of point records
    p,             \* its output pointer, as an index of output
    border,        \* its unsigned char border
    call           \* activation record of the predicate

vars == <<vertices, N_vertices, points_xy, N_points_xy, border_value, output,
          written, pc, i, point, p, border, call>>

Unwritten == 0 - 1

\* (Point *) buf, then buf[k]: the k-th record of a flat buffer.
PointAt(buf, k) == [x |-> buf[2 * k + 1], y |-> buf[2 * k + 2]]

\* (unsigned char) border_value
Narrow(v) == v % 256

-----------------------------------------------------------------------------
(* The predicate _INSIDE_POLYGON(NAME, TYPE).                              *)

Idle ==
    [pc |-> "idle", N |-> 0, p |-> [x |-> 0, y |-> 0], border_value |-> 0,
     counter |-> 0, i |-> 0, p1 |-> [x |-> 0, y |-> 0], ret |-> 0,
     how |-> "none", scanned |-> 0, horizontal |-> FALSE, line25 |-> "unreached",
     den |-> 1, counted |-> FALSE]

\* Lines 12-17: counter = 0, p1 = polygon[0], and the loop starts at i = 1.
Enter(polygon, N, q, b) ==
    [pc |-> "loop", N |-> N, p |-> q, border_value |-> b,
     counter |-> 0, i |-> 1, p1 |-> PointAt(polygon, 0), ret |-> 0,
     how |-> "none", scanned |-> 0, horizontal |-> FALSE, line25 |-> "unreached",
     den |-> 1, counted |-> FALSE]

\* Line 18: i <= N
LoopCondOffByOne(f) == f.i < f.N
LoopCond(f) == f.i <= f.N

\* Line 19
VertexHitFirstOnly(f) == f.i = 1 /\ f.p1.x = f.p.x /\ f.p1.y = f.p.y
VertexHitEitherCoord(f) == f.p1.x = f.p.x \/ f.p1.y = f.p.y
VertexHit(f) == f.p1.x = f.p.x /\ f.p1.y = f.p.y

\* Lines 22-24: the three guards around the test of line 25.
GuardExclusiveMax(q, p1, p2) ==
    /\ q.y > MIN(p1.y, p2.y)
    /\ q.y < MAX(p1.y, p2.y)
    /\ q.x <= MAX(p1.x, p2.x)
GuardInclusiveMin(q, p1, p2) ==
    /\ q.y >= MIN(p1.y, p2.y)
    /\ q.y <= MAX(p1.y, p2.y)
    /\ q.x <= MAX(p1.x, p2.x)
Guard(q, p1, p2) ==
    /\ q.y > MIN(p1.y, p2.y)
    /\ q.y <= MAX(p1.y, p2.y)
    /\ q.x <= MAX(p1.x, p2.x)

\* Lines 26-27: p.x <= xinters, xinters = (p.y-p1.y)*(p2.x-p1.x)/(p2.y-p1.y)+p1.x.
\* A zero denominator gives an infinity or a NaN in double arithmetic.
LeXintersFromP2(q, p1, p2) ==
    LET num == (q.y - p1.y) * (p2.x - p1.x)
        den == p2.y - p1.y
        lhs == q.x - p2.x
    IN  IF den > 0 THEN lhs * den <= num
        ELSE IF den < 0 THEN lhs * den >= num
        ELSE num > 0
LeXinters(q, p1, p2) ==
    LET num == (q.y - p1.y) * (p2.x - p1.x)
        den == p2.y - p1.y
        lhs == q.x - p1.x
    IN  IF den > 0 THEN lhs * den <= num
        ELSE IF den < 0 THEN lhs * den >= num
        ELSE num > 0

\* Lines 25-28: whether the edge increments the counter once the guards hold.
Counts(q, p1, p2) ==
    /\ p1.y # p2.y
    /\ (p1.x = p2.x \/ LeXinters(q, p1, p2))

\* Lines 19-33: one iteration of the loop body.
IterateKeepP1(polygon, f) ==
    IF VertexHit(f)
    THEN [f EXCEPT !.pc = "returned", !.ret = f.border_value, !.how = "vertex"]
    ELSE LET p2 == PointAt(polygon, f.i % f.N)
             g  == Guard(f.p, f.p1, p2)
             c  == g /\ Counts(f.p, f.p1, p2)
         IN  [f EXCEPT !.counter = IF c THEN f.counter + 1 ELSE f.counter,
                       !.i = f.i + 1,
                       !.scanned = f.scanned + 1,
                       !.horizontal = (f.p1.y = p2.y),
                       !.line25 = IF ~g THEN "unreached"
                                  ELSE IF f.p1.y # p2.y THEN "true" ELSE "false",
                       !.den = IF g /\ f.p1.y # p2.y THEN p2.y - f.p1.y ELSE 1,
                       !.counted = c]
Iterate(polygon, f) ==
    IF VertexHit(f)
    THEN [f EXCEPT !.pc = "returned", !.ret = f.border_value, !.how = "vertex"]
    ELSE LET p2 == PointAt(polygon, f.i % f.N)
             g  == Guard(f.p, f.p1, p2)
             c  == g /\ Counts(f.p, f.p1, p2)
         IN  [f EXCEPT !.counter = IF c THEN f.counter + 1 ELSE f.counter,
                       !.i = f.i + 1,
                       !.p1 = p2,
                       !.scanned = f.scanned + 1,
                       !.horizontal = (f.p1.y = p2.y),
                       !.line25 = IF ~g THEN "unreached"
                                  ELSE IF f.p1.y # p2.y THEN "true" ELSE "false",
                       !.den = IF g /\ f.p1.y # p2.y THEN p2.y - f.p1.y ELSE 1,
                       !.counted = c]

\* Lines 36-39
FinishSwapped(f) ==
    [f EXCEPT !.pc = "returned",
              !.ret = IF f.counter % 2 = 0 THEN INSIDE ELSE OUTSIDE,
              !.how = "parity"]
Finish(f) ==
    [f EXCEPT !.pc = "returned",
              !.ret = IF f.counter % 2 = 0 THEN OUTSIDE ELSE INSIDE,
              !.how = "parity"]

\* The whole call, from an activation record to the returned one.
RECURSIVE RunFrom(_, _)
RunFrom(polygon, f) ==
    IF f.pc = "returned" THEN f
    ELSE IF LoopCond(f) THEN RunFrom(polygon, Iterate(polygon, f))
    ELSE Finish(f)

\* _InsidePolygon, _InsidePolygonF, _InsidePolygonInt (lines 44-46).
InsidePolygon(polygon, N, q, b) == RunFrom(polygon, Enter(polygon, N, q, b)).ret

-----------------------------------------------------------------------------
(* The batch entry points.                                                 *)

\* Lines 60-65 (85-90, 110-115): the pointers, the narrowed border, i = 0.
Begin ==
    /\ pc = "start"
    /\ point' = 0
    /\ border' = Narrow(border_value)
    /\ p' = 0
    /\ i' = 0
    /\ pc' = "loop"
    /\ UNCHANGED <<vertices, N_vertices, points_xy, N_points_xy, border_value,
                   output, written, call>>

\* The three entry points have the same body, and the state they build does
\* not depend on the type of the points, whose values all three types hold.
PointsInsidePolygon == Begin
PointsInsidePolygonF == Begin
PointsInsidePolygonInt == Begin

\* Lines 65, 67: the loop test holds and the predicate is called on *point.
CallPredicate ==
    /\ pc = "loop"
    /\ i < N_points_xy
    /\ call' = Enter(vertices, N_vertices, PointAt(points_xy, point), border)
    /\ pc' = "call"
    /\ UNCHANGED <<vertices, N_vertices, points_xy, N_points_xy, border_value,
                   output, written, i, point, p, border>>

\* Lines 18-20: the vertex under p1 is the query point.
ReturnBorder ==
    /\ pc = "call"
    /\ call.pc = "loop"
    /\ LoopCond(call)
    /\ VertexHit(call)
    /\ call' = Iterate(vertices, call)
    /\ UNCHANGED <<vertices, N_vertices, points_xy, N_points_xy, border_value,
                   output, written, pc, i, point, p, border>>

\* Lines 18-33: one edge is scanned.
ScanEdge ==
    /\ pc = "call"
    /\ call.pc = "loop"
    /\ LoopCond(call)
    /\ ~VertexHit(call)
    /\ call' = Iterate(vertices, call)
    /\ UNCHANGED <<vertices, N_vertices, points_xy, N_points_xy, border_value,
                   output, written, pc, i, point, p, border>>

\* Lines 36-39: the loop is over.
ReturnParity ==
    /\ pc = "call"
    /\ call.pc = "loop"
    /\ ~LoopCond(call)
    /\ call' = Finish(call)
    /\ UNCHANGED <<vertices, N_vertices, points_xy, N_points_xy, border_value,
                   output, written, pc, i, point, p, border>>

\* Lines 67-69 and the i++ of line 65.
StoreKeepPoint ==
    /\ pc = "call"
    /\ call.pc = "returned"
    /\ output' = [output EXCEPT ![p + 1] = call.ret]
    /\ written' = [written EXCEPT ![p + 1] = @ + 1]
    /\ p' = p + 1
    /\ point' = point
    /\ i' = i + 1
    /\ call' = Idle
    /\ pc' = "loop"
    /\ UNCHANGED <<vertices, N_vertices, points_xy, N_points_xy, border_value,
                   border>>
StoreKeepP ==
    /\ pc = "call"
    /\ call.pc = "returned"
    /\ output' = [output EXCEPT ![p + 1] = call.ret]
    /\ written' = [written EXCEPT ![p + 1] = @ + 1]
    /\ p' = p
    /\ point' = point + 1
    /\ i' = i + 1
    /\ call' = Idle
    /\ pc' = "loop"
    /\ UNCHANGED <<vertices, N_vertices, points_xy, N_points_xy, border_value,
                   border>>
Store ==
    /\ pc = "call"
    /\ call.pc = "returned"
    /\ output' = [output EXCEPT ![p + 1] = call.ret]
    /\ written' = [written EXCEPT ![p + 1] = @ + 1]
    /\ p' = p + 1
    /\ point' = point + 1
    /\ i' = i + 1
    /\ call' = Idle
    /\ pc' = "loop"
    /\ UNCHANGED <<vertices, N_vertices, points_xy, N_points_xy, border_value,
                   border>>

\* Lines 65, 71: the loop test fails and the function returns.
Return ==
    /\ pc = "loop"
    /\ i >= N_points_xy
    /\ pc' = "done"
    /\ UNCHANGED <<vertices, N_vertices, points_xy, N_points_xy, border_value,
                   output, written, i, point, p, border, call>>

Next ==
    \/ PointsInsidePolygon
    \/ PointsInsidePolygonF
    \/ PointsInsidePolygonInt
    \/ CallPredicate
    \/ ReturnBorder
    \/ ScanEdge
    \/ ReturnParity
    \/ Store
    \/ Return

-----------------------------------------------------------------------------
(* The calls the specifications start from.                                *)

BorderValues == {2, 257}

\* The flat buffer of a sequence of point records.
Flat(ps) == [j \in 1..(2 * Len(ps)) |->
                IF j % 2 = 1 THEN ps[(j + 1) \div 2].x ELSE ps[j \div 2].y]

Grid(xs, ys) == [x : xs, y : ys]
SmallGrid == Grid(0..MaxX, 0..MaxY)

\* The caller's state before the call: the output buffer has one slot more
\* than N_points_xy, so that a store past the end is seen.
InitCall(vs, n, pts, np, bv) ==
    /\ vertices = vs
    /\ N_vertices = n
    /\ points_xy = pts
    /\ N_points_xy = np
    /\ border_value = bv
    /\ output = [j \in 1..(np + 1) |-> Unwritten]
    /\ written = [j \in 1..(np + 1) |-> 0]
    /\ pc = "start"
    /\ i = 0
    /\ point = 0
    /\ p = 0
    /\ border = 0
    /\ call = Idle

\* Every polygon of 3..MaxN vertices on the small grid, degenerate ones
\* included, with one query point of the grid and a border that narrows to a
\* byte other than INSIDE and OUTSIDE.
Init ==
    \E n \in 3..MaxN :
        \E poly \in [1..n -> SmallGrid] :
            \E q \in SmallGrid :
                InitCall(Flat(poly), n, Flat(<<q>>), 1, 258)

Spec == Init /\ [][Next]_vars

\* A few polygons spanning the small grid, batches of 0..MaxPoints grid points.
BatchPolygons ==
    { <<[x |-> 0, y |-> 0], [x |-> 0, y |-> MaxY], [x |-> MaxX, y |-> 0]>>,
      <<[x |-> 0, y |-> 0], [x |-> 0, y |-> MaxY], [x |-> MaxX, y |-> MaxY],
        [x |-> MaxX, y |-> 0]>> }
BatchBorderValues == BorderValues \cup {0 - 1}

InitBatch ==
    \E poly \in BatchPolygons :
        \E np \in 0..MaxPoints :
            \E qs \in [1..np -> SmallGrid] :
                \E bv \in BatchBorderValues :
                    InitCall(Flat(poly), Len(poly), Flat(qs), np, bv)

SpecBatch == InitBatch /\ [][Next]_vars

\* The square [(0,0),(0,10),(10,10),(10,0)] and one point of a grid around it.
Square == <<0, 0, 0, 10, 10, 10, 10, 0>>

InitSquare ==
    \E q \in Grid((0 - Margin)..(10 + Margin), (0 - Margin)..(10 + Margin)) :
        \E bv \in BorderValues :
            InitCall(Square, 4, Flat(<<q>>), 1, bv)

SpecSquare == InitSquare /\ [][Next]_vars

\* The "C" [(0,0),(0,6),(6,6),(6,4),(2,4),(2,2),(6,2),(6,0)] and one point of
\* a grid around it.
CShape == <<0, 0, 0, 6, 6, 6, 6, 4, 2, 4, 2, 2, 6, 2, 6, 0>>

InitCShape ==
    \E q \in Grid((0 - Margin)..(6 + Margin), (0 - Margin)..(6 + Margin)) :
        \E bv \in BorderValues :
            InitCall(CShape, 8, Flat(<<q>>), 1, bv)

SpecCShape == InitCShape /\ [][Next]_vars

-----------------------------------------------------------------------------
(* Properties.                                                             *)

Returned == pc = "call" /\ call.pc = "returned"
VertexIndices == 0..(N_vertices - 1)
AtVertex(q) == \E k \in VertexIndices : PointAt(vertices, k) = q
ByteSample == {0, 1, 2, 255}

\* The vertex list started at vertex r, in the same direction.
RotateBuf(buf, N, r) ==
    [j \in 1..(2 * N) |-> buf[((j - 1 + 2 * r) % (2 * N)) + 1]]
\* The vertex list in the opposite direction.
ReverseBuf(buf, N) ==
    [j \in 1..(2 * N) |-> buf[2 * (N - 1 - ((j - 1) \div 2)) + ((j - 1) % 2) + 1]]

\* q lies on the closed segment from a to b.
OnSegment(q, a, b) ==
    /\ (b.x - a.x) * (q.y - a.y) = (b.y - a.y) * (q.x - a.x)
    /\ MIN(a.x, b.x) <= q.x /\ q.x <= MAX(a.x, b.x)
    /\ MIN(a.y, b.y) <= q.y /\ q.y <= MAX(a.y, b.y)
OnBoundary(q) ==
    \E k \in VertexIndices :
        OnSegment(q, PointAt(vertices, k), PointAt(vertices, (k + 1) % N_vertices))

\* C1: a query point equal to some vertex polygon[k] makes the predicate
\* return border_value, on the vertex path, for every border byte and
\* whatever the counter holds when vertex k is reached.
C1_VertexReturnsBorder ==
    (Returned /\ AtVertex(call.p)) =>
        /\ call.how = "vertex"
        /\ call.ret = Narrow(border_value)
        /\ \A b \in ByteSample : InsidePolygon(vertices, N_vertices, call.p, b) = b
C1_Witness ==
    /\ Returned
    /\ AtVertex(call.p)
    /\ call.how = "vertex"
    /\ call.scanned >= 2
    /\ call.counter >= 1

\* C2 as stated: on the square, the edge point (5,0) is classified INSIDE.
C2_EdgePointInside ==
    (Returned /\ call.p = [x |-> 5, y |-> 0]) => call.ret = INSIDE
\* C2 as amended: on the square, the edge point (5,0) takes the parity return
\* with no crossing counted and is classified OUTSIDE.
C2_EdgePointOutside ==
    (Returned /\ call.p = [x |-> 5, y |-> 0]) =>
        /\ call.how = "parity"
        /\ call.counter = 0
        /\ call.ret = OUTSIDE
C2_Witness ==
    /\ Returned
    /\ call.p = [x |-> 5, y |-> 0]
    /\ call.scanned = 4

\* C3: on the square, (5,5) and every point with 0<x<10 and 0<y<10 is INSIDE,
\* (15,5) and every point strictly outside the closed square is OUTSIDE, also
\* at y = 0 and y = 10 left and right of the square, and (0,0) gets the border.
C3_Square ==
    Returned =>
        /\ (0 < call.p.x /\ call.p.x < 10 /\ 0 < call.p.y /\ call.p.y < 10)
               => call.ret = INSIDE
        /\ (call.p.x < 0 \/ call.p.x > 10 \/ call.p.y < 0 \/ call.p.y > 10)
               => call.ret = OUTSIDE
        /\ call.p = [x |-> 0, y |-> 0] => call.ret = Narrow(border_value)
C3_Witness ==
    /\ Returned
    /\ call.p.y = 10
    /\ call.p.x < 0
    /\ call.counter = 2
    /\ call.ret = OUTSIDE

\* C4: the batch classifies the points in index order, each once: at any
\* moment the slots below i hold the predicate's result for their point and
\* the narrowed border, the others are untouched, the point under
\* classification is points[i], and the function returns with i = N_points_xy.
C4_BatchIsPredicate ==
    pc # "start" =>
        /\ point = i
        /\ p = i
        /\ i <= N_points_xy
        /\ pc = "done" => i = N_points_xy
        /\ pc = "call" => call.p = PointAt(points_xy, i)
        /\ \A j \in 0..(N_points_xy - 1) :
               IF j < i
               THEN output[j + 1] = InsidePolygon(vertices, N_vertices,
                                        PointAt(points_xy, j), Narrow(border_value))
               ELSE output[j + 1] = Unwritten
C4_Witness ==
    /\ pc = "done"
    /\ N_points_xy >= 2
    /\ AtVertex(PointAt(points_xy, 0))
    /\ ~AtVertex(PointAt(points_xy, 1))
    /\ output[1] = Narrow(border_value)
    /\ output[2] = INSIDE
    /\ border_value # Narrow(border_value)

\* C5: the result does not depend on the vertex the list starts at.
C5_RotationInvariant ==
    Returned =>
        \A r \in VertexIndices :
            InsidePolygon(RotateBuf(vertices, N_vertices, r), N_vertices,
                          call.p, call.border_value) = call.ret
C5_Witness ==
    /\ Returned
    /\ call.how = "parity"
    /\ call.ret = INSIDE
    /\ \A r \in 1..(N_vertices - 1) : RotateBuf(vertices, N_vertices, r) # vertices

\* C6: the result does not depend on the direction of the vertex list.
C6_ReversalInvariant ==
    Returned =>
        InsidePolygon(ReverseBuf(vertices, N_vertices), N_vertices,
                      call.p, call.border_value) = call.ret
C6_Witness ==
    /\ Returned
    /\ call.how = "parity"
    /\ call.ret = INSIDE
    /\ ReverseBuf(vertices, N_vertices) # vertices
    /\ \A k \in VertexIndices : \A l \in VertexIndices :
           k # l => PointAt(vertices, k) # PointAt(vertices, l)

\* C7: on the "C", every point of the notch (x>2, 2<y<4) is OUTSIDE and every
\* point strictly inside the two arms and the spine is INSIDE.
C7_CShape ==
    Returned =>
        /\ (call.p.x > 2 /\ 2 < call.p.y /\ call.p.y < 4) => call.ret = OUTSIDE
        /\ (/\ 0 < call.p.x /\ call.p.x < 6
            /\ \/ (0 < call.p.y /\ call.p.y < 2)
               \/ (4 < call.p.y /\ call.p.y < 6)) => call.ret = INSIDE
        /\ (0 < call.p.x /\ call.p.x < 2 /\ 0 < call.p.y /\ call.p.y < 6)
               => call.ret = INSIDE
C7_Witness ==
    /\ Returned
    /\ call.p = [x |-> 4, y |-> 3]
    /\ call.how = "parity"
    /\ call.ret = OUTSIDE

\* C8: a batch call never changes vertices or points_xy; a step changes at
\* most the output slot under p, which is below N_points_xy; no slot is stored
\* to twice, none at or past N_points_xy, and on return each of the first
\* N_points_xy slots was stored to once (none when N_points_xy = 0).
C8_SlotsInvariant ==
    \A j \in 1..Len(output) :
        /\ written[j] <= 1
        /\ j > N_points_xy => (written[j] = 0 /\ output[j] = Unwritten)
        /\ (pc = "done" /\ j <= N_points_xy) => written[j] = 1
C8_StepFrame ==
    /\ vertices' = vertices
    /\ points_xy' = points_xy
    /\ \A j \in 1..Len(output) :
           (output'[j] # output[j] \/ written'[j] # written[j])
               => (j = p + 1 /\ j <= N_points_xy)
C8_Frame == [](C8_SlotsInvariant) /\ [][C8_StepFrame]_vars
C8_Witness ==
    /\ pc = "done"
    /\ N_points_xy >= 2
    /\ \A j \in 1..N_points_xy : written[j] = 1 /\ output[j] # Unwritten
    /\ output[N_points_xy + 1] = Unwritten

\* C9: a horizontal edge never passes the guards of lines 22-23, so it never
\* counts, and the test of line 25 is true whenever it is reached: xinters
\* is only computed with a non-zero denominator.
C9_HorizontalEdgeSkipped ==
    (pc = "call" /\ call.scanned >= 1) =>
        /\ call.horizontal => (call.line25 = "unreached" /\ ~call.counted)
        /\ call.line25 # "false"
        /\ call.line25 = "true" => call.den # 0
C9_Witness ==
    /\ pc = "call"
    /\ call.pc = "loop"
    /\ call.scanned >= 1
    /\ call.horizontal
    /\ call.p.y = call.p1.y
    /\ call.p.x < call.p1.x
    /\ call.line25 = "unreached"

\* C10: a query point that is no vertex, on an edge or not, has all N edges
\* scanned and gets the parity result, INSIDE or OUTSIDE, the same for every
\* border byte.
C10_BorderOnlyAtVertex ==
    (Returned /\ ~AtVertex(call.p)) =>
        /\ call.scanned = N_vertices
        /\ call.how = "parity"
        /\ call.ret \in {INSIDE, OUTSIDE}
        /\ \A b \in ByteSample :
               InsidePolygon(vertices, N_vertices, call.p, b) = call.ret
C10_Witness ==
    /\ Returned
    /\ ~AtVertex(call.p)
    /\ OnBoundary(call.p)
    /\ call.how = "parity"
    /\ call.ret = INSIDE
    /\ call.border_value = 2

====
